---- MODULE Spec2Model ----
(***************************************************************************)
(* Model of appservice/src/deploy/runPreDeployTask.ts: resolving the       *)
(* configured pre-deploy task, launching it, waiting on the broadcast      *)
(* onDidEndTaskProcess stream, and handling the outcome.                   *)
(*                                                                         *)
(* Strings the code inspects character by character (task names) are       *)
(* sequences of one-character strings; file system paths are sequences of  *)
(* path segments; an optional value (T | undefined) is a sequence of       *)
(* length at most one: <<>> is undefined, <<v>> is the value v.            *)
(***************************************************************************)
EXTENDS Integers, Sequences, FiniteSets

\* ---------------------------------------------------------------- bounds
\* Largest exit code a task process reports in the model.
MaxExitCode == 1
\* Number of task-process-end events the host emits in one behaviour.
MaxEvents == 2

\* ------------------------------------------------------------ primitives
undefined == <<>>
Some(v) == <<v>>

UpperCase == <<"A","B","C","D","E","F","G","H","I","J","K","L","M",
               "N","O","P","Q","R","S","T","U","V","W","X","Y","Z">>
LowerCase == <<"a","b","c","d","e","f","g","h","i","j","k","l","m",
               "n","o","p","q","r","s","t","u","v","w","x","y","z">>

UpperCaseLetters == {UpperCase[u] : u \in 1..Len(UpperCase)}

\* String.prototype.toLowerCase, character by character.
toLowerCase(s) ==
    [k \in 1..Len(s) |->
        IF s[k] \in UpperCaseLetters
        THEN LowerCase[CHOOSE u \in 1..Len(UpperCase) : UpperCase[u] = s[k]]
        ELSE s[k]]

\* The characters \s matches among those the model's names use.
IsWhitespace(c) == c \in {" ", "\t"}

RECURSIVE TrimStart(_)
TrimStart(s) ==
    IF s # <<>> /\ IsWhitespace(Head(s)) THEN TrimStart(Tail(s)) ELSE s

\* Variant of stripSource that never removes the source prefix.
stripSource_keepsSource(s) == s

\* taskName.replace(/^[^:]*:\s*/, ''): drop everything up to and including
\* the first colon and the whitespace after it; a name without a colon does
\* not match the pattern and is returned unchanged.
stripSource(s) ==
    IF \E k \in 1..Len(s) : s[k] = ":"
    THEN LET c == CHOOSE k \in 1..Len(s) :
                     s[k] = ":" /\ \A j \in 1..(k-1) : s[j] # ":"
         IN  TrimStart(SubSeq(s, c + 1, Len(s)))
    ELSE s

\* String(n) for a non-negative integer: its decimal digits.
Digits == <<"0","1","2","3","4","5","6","7","8","9">>
RECURSIVE String(_)
String(n) ==
    IF n < 10 THEN <<Digits[n + 1]>>
    ELSE String(n \div 10) \o <<Digits[(n % 10) + 1]>>

\* ----------------------------------------------------------------- paths
\* utils/pathUtils.isPathEqual: path.relative(a, b) is the empty string.
isPathEqual(fsPath1, fsPath2) == fsPath1 = fsPath2

\* utils/pathUtils.isSubpath: expectedChild lies strictly below
\* expectedParent, on path-segment boundaries.
isSubpath(expectedParent, expectedChild) ==
    /\ Len(expectedParent) < Len(expectedChild)
    /\ SubSeq(expectedChild, 1, Len(expectedParent)) = expectedParent

ScmType == [LocalGit |-> "LocalGit", GitHub |-> "GitHub", None |-> "None"]

\* ----------------------------------------------------------------- names
ExtensionsInstall ==
    <<"e","x","t","e","n","s","i","o","n","s"," ","i","n","s","t","a","l","l">>
FuncExtensionsInstall == <<"f","u","n","c",":"," ">> \o ExtensionsInstall
ExtensionsInstallCaps ==
    <<"E","x","t","e","n","s","i","o","n","s"," ","I","n","s","t","a","l","l">>
Build == <<"b","u","i","l","d">>
EmptyString == <<>>

\* Values the setting "<prefix>.preDeployTask" takes in the model.
Settings ==
    {undefined, Some(EmptyString), Some(ExtensionsInstall),
     Some(FuncExtensionsInstall)}

\* ----------------------------------------------------------------- tasks
Proj == <<"proj">>
ProjSub == <<"proj", "sub">>
Other == <<"other">>
DeployPaths == {ProjSub, Other}
ScmTypes == {ScmType.LocalGit, ScmType.GitHub, ScmType.None}

FolderScope(p) == [kind |-> "object", hasUri |-> TRUE, fsPath |-> p]
\* vscode.TaskScope.Global / Workspace: a number, not a workspace folder.
NumberScope == [kind |-> "number", hasUri |-> FALSE, fsPath |-> <<>>]
NoScope == [kind |-> "undefined", hasUri |-> FALSE, fsPath |-> <<>>]

\* The vscode.Task objects of the model, by identity.
TaskIds ==
    {"funcExt", "ext", "extCaps", "build", "extGlobal", "extOther", "extElsewhere"}
Task ==
    [funcExt   |-> [name |-> FuncExtensionsInstall, scope |-> FolderScope(Proj)],
     ext       |-> [name |-> ExtensionsInstall, scope |-> FolderScope(Proj)],
     extCaps   |-> [name |-> ExtensionsInstallCaps, scope |-> FolderScope(ProjSub)],
     build     |-> [name |-> Build, scope |-> FolderScope(Proj)],
     extGlobal |-> [name |-> ExtensionsInstall, scope |-> NumberScope],
     extOther  |-> [name |-> ExtensionsInstall, scope |-> NoScope],
     extElsewhere |-> [name |-> ExtensionsInstall, scope |-> FolderScope(Other)]]

\* What vscode.tasks.fetchTasks() returns, in enumeration order.
TaskLists ==
    {<<"funcExt", "build">>,
     <<"ext", "funcExt", "build">>,
     <<"extGlobal", "extOther", "extCaps", "extElsewhere">>,
     <<"build", "ext">>}

ExitCodes == 0..MaxExitCode
Invocations == {"d1", "d2"}

\* ----------------------------------------------------------------- state
VARIABLES
    setting,            \* configured value of "<prefix>.preDeployTask"
    tasks,              \* the task registry's enumeration
    eventCount,         \* task-process-end events emitted so far
    pc,                 \* position of each runPreDeployTask invocation
    deployFsPath,       \* argument deployFsPath of each invocation
    scmType,            \* argument scmType of each invocation
    preDeployTaskResult,\* local preDeployTaskResult of tryRunPreDeployTask
    preDeployTask,      \* the task resolved and launched, "none" if none
    wait,               \* waitForPreDeployTask: listener and promise
    telemetry,          \* context.telemetry.properties
    effects,            \* calls made to the host by each invocation
    ownEnded            \* the launched task's end event was emitted after
                        \* executeTask was invoked

vars == <<setting, tasks, eventCount, pc, deployFsPath, scmType,
          preDeployTaskResult, preDeployTask, wait, telemetry, effects,
          ownEnded>>

\* IPreDeployTaskResult
IPreDeployTaskResult(taskName, exitCode, failedToFindTask) ==
    [taskName |-> taskName, exitCode |-> exitCode,
     failedToFindTask |-> failedToFindTask]

NoEffects ==
    [fetchTasks |-> 0, executeTask |-> 0, onDidEndTaskProcess |-> 0,
     withProgress |-> 0, appendLog |-> 0, showErrorMessage |-> 0,
     executeCommand |-> 0]

NoTelemetry ==
    [hasPreDeployTask |-> undefined, preDeployTaskExitCode |-> undefined,
     preDeployTaskResponse |-> undefined]

NoWait ==
    [registered |-> FALSE, registeredAt |-> 0, promise |-> undefined,
     disposeCalls |-> 0, resolveCalls |-> 0, handled |-> 0]

Init ==
    /\ setting \in Settings
    /\ tasks \in TaskLists
    /\ eventCount = 0
    /\ pc = [i \in Invocations |-> "idle"]
    /\ deployFsPath = [i \in Invocations |-> <<>>]
    /\ scmType = [i \in Invocations |-> ScmType.None]
    /\ preDeployTaskResult =
         [i \in Invocations |-> IPreDeployTaskResult(undefined, undefined, FALSE)]
    /\ preDeployTask = [i \in Invocations |-> "none"]
    /\ wait = [i \in Invocations |-> NoWait]
    /\ telemetry = [i \in Invocations |-> NoTelemetry]
    /\ effects = [i \in Invocations |-> NoEffects]
    /\ ownEnded = [i \in Invocations |-> FALSE]

\* ------------------------------------------------------------- resolver
isTaskEqual(expectedName, expectedPath, actualTask) ==
    IF /\ toLowerCase(expectedName) = toLowerCase(actualTask.name)
       /\ actualTask.scope.kind # "undefined"
    THEN /\ actualTask.scope.hasUri
         /\ \/ isPathEqual(actualTask.scope.fsPath, expectedPath)
            \/ isSubpath(actualTask.scope.fsPath, expectedPath)
    ELSE FALSE

isScopeEqual(task, workspaceFsPath) ==
    IF task.scope.kind = "object"
    THEN /\ task.scope.hasUri
         /\ \/ isPathEqual(task.scope.fsPath, workspaceFsPath)
            \/ isSubpath(task.scope.fsPath, workspaceFsPath)
    ELSE FALSE

\* tasks.find(task => isTaskEqual(name, path, task)): the first task in
\* enumeration order that matches, "none" for undefined.
find(list, expectedName, expectedPath) ==
    IF \E k \in 1..Len(list) : isTaskEqual(expectedName, expectedPath, Task[list[k]])
    THEN list[CHOOSE k \in 1..Len(list) :
                 /\ isTaskEqual(expectedName, expectedPath, Task[list[k]])
                 /\ \A j \in 1..(k-1) :
                        ~isTaskEqual(expectedName, expectedPath, Task[list[j]])]
    ELSE "none"

\* Variant of findPreDeployTask that makes one pass accepting either name.
findPreDeployTask_singlePass(list, taskName, path) ==
    LET taskNameWithoutSource == stripSource(taskName)
        either(k) == \/ isTaskEqual(taskName, path, Task[list[k]])
                     \/ isTaskEqual(taskNameWithoutSource, path, Task[list[k]])
    IN  IF \E k \in 1..Len(list) : either(k)
        THEN list[CHOOSE k \in 1..Len(list) :
                     either(k) /\ \A j \in 1..(k-1) : ~either(j)]
        ELSE "none"

\* tasks.find(exact name) || tasks.find(name without source)
findPreDeployTask(list, taskName, path) ==
    LET taskNameWithoutSource == stripSource(taskName)
        exact == find(list, taskName, path)
    IN  IF exact # "none" THEN exact
        ELSE find(list, taskNameWithoutSource, path)

\* Variant of Truthy that only rejects the empty string.
Truthy_notEmptyString(taskName) == taskName # Some(EmptyString)

\* if (taskName): undefined and the empty string are falsy.
Truthy(taskName) == taskName # undefined /\ taskName[1] # EmptyString

\* ------------------------------------------------- tryRunPreDeployTask
\* Variant of isNonZipDeploy that recognises LocalGit only.
isNonZipDeploy_localGitOnly(scm) == scm = ScmType.LocalGit

\* scmType === ScmType.LocalGit || scmType === ScmType.GitHub
isNonZipDeploy(scm) == scm = ScmType.LocalGit \/ scm = ScmType.GitHub

\* runPreDeployTask is called and runs tryRunPreDeployTask up to its first
\* suspension: the setting is read, and either the result is returned at
\* once (no task name, or a non-zip deploy) or fetchTasks() is awaited.
runPreDeployTask(i, path, scm) ==
    /\ pc[i] = "idle"
    /\ deployFsPath' = [deployFsPath EXCEPT ![i] = path]
    /\ scmType' = [scmType EXCEPT ![i] = scm]
    /\ telemetry' = [telemetry EXCEPT ![i].hasPreDeployTask =
                        Some(IF Truthy(setting) THEN "true" ELSE "false")]
    /\ preDeployTaskResult' = [preDeployTaskResult EXCEPT
                                 ![i] = IPreDeployTaskResult(setting, undefined, FALSE)]
    /\ IF Truthy(setting)
       THEN IF isNonZipDeploy(scm)
            THEN /\ effects' = [effects EXCEPT ![i].appendLog = @ + 1]
                 /\ pc' = [pc EXCEPT ![i] = "tryReturned"]
            ELSE /\ effects' = [effects EXCEPT ![i].fetchTasks = @ + 1]
                 /\ pc' = [pc EXCEPT ![i] = "fetching"]
       ELSE /\ effects' = effects
            /\ pc' = [pc EXCEPT ![i] = "tryReturned"]
    /\ UNCHANGED <<setting, tasks, eventCount, preDeployTask,
                   wait, ownEnded>>

\* Variant of fetchTasksReturned that throws from tryRunPreDeployTask when no
\* task is found.
fetchTasksReturned_throwsNotFound(i) ==
    /\ pc[i] = "fetching"
    /\ LET found == findPreDeployTask(tasks, setting[1], deployFsPath[i])
       IN  IF found # "none"
           THEN /\ preDeployTask' = [preDeployTask EXCEPT ![i] = found]
                /\ effects' = [effects EXCEPT ![i].withProgress = @ + 1,
                                              ![i].executeTask = @ + 1]
                /\ pc' = [pc EXCEPT ![i] = "executing"]
                /\ UNCHANGED preDeployTaskResult
           ELSE /\ preDeployTaskResult' =
                      [preDeployTaskResult EXCEPT ![i].failedToFindTask = TRUE]
                /\ pc' = [pc EXCEPT ![i] = "threwError"]
                /\ UNCHANGED <<preDeployTask, effects>>
    /\ UNCHANGED <<setting, tasks, eventCount, deployFsPath,
                   scmType, wait, telemetry, ownEnded>>

\* fetchTasks() has resolved: the task is looked up and, when found, the
\* progress notification is opened and executeTask is invoked.
fetchTasksReturned(i) ==
    /\ pc[i] = "fetching"
    /\ LET found == findPreDeployTask(tasks, setting[1], deployFsPath[i])
       IN  IF found # "none"
           THEN /\ preDeployTask' = [preDeployTask EXCEPT ![i] = found]
                /\ effects' = [effects EXCEPT ![i].withProgress = @ + 1,
                                              ![i].executeTask = @ + 1]
                /\ pc' = [pc EXCEPT ![i] = "executing"]
                /\ UNCHANGED preDeployTaskResult
           ELSE /\ preDeployTaskResult' =
                      [preDeployTaskResult EXCEPT ![i].failedToFindTask = TRUE]
                /\ pc' = [pc EXCEPT ![i] = "tryReturned"]
                /\ UNCHANGED <<preDeployTask, effects>>
    /\ UNCHANGED <<setting, tasks, eventCount, deployFsPath,
                   scmType, wait, telemetry, ownEnded>>

\* ------------------------------------------------- waitForPreDeployTask
\* executeTask() has resolved: waitForPreDeployTask creates the promise and
\* registers errorListener on onDidEndTaskProcess.
waitForPreDeployTask(i) ==
    /\ pc[i] = "executing"
    /\ wait' = [wait EXCEPT ![i].registered = TRUE,
                           ![i].registeredAt = eventCount]
    /\ effects' = [effects EXCEPT ![i].onDidEndTaskProcess = @ + 1]
    /\ pc' = [pc EXCEPT ![i] = "waiting"]
    /\ UNCHANGED <<setting, tasks, eventCount, deployFsPath,
                   scmType, preDeployTaskResult, preDeployTask, telemetry,
                   ownEnded>>

\* errorListener.dispose()
dispose(w) == [w EXCEPT !.registered = FALSE, !.disposeCalls = @ + 1]

\* resolve(result): a promise settles once, later calls have no effect.
resolve(w, result) ==
    [w EXCEPT !.promise = IF @ = undefined THEN Some(result) ELSE @,
              !.resolveCalls = @ + 1]

TaskProcessEndEvent(t, exitCode) == [task |-> t, exitCode |-> exitCode]

\* Variant of eventResult that does not copy the ended task's name.
eventResult_noTaskName(e) ==
    [taskName |-> undefined, exitCode |-> Some(e.exitCode),
     failedToFindTask |-> FALSE]

\* Variant of eventResult that flags the result as failedToFindTask.
eventResult_failedToFind(e) ==
    [taskName |-> Some(Task[e.task].name), exitCode |-> Some(e.exitCode),
     failedToFindTask |-> TRUE]

\* {taskName: e.execution.task.name, exitCode: e.exitCode, failedToFindTask: false}
eventResult(e) ==
    IPreDeployTaskResult(Some(Task[e.task].name), Some(e.exitCode), FALSE)

\* Variant of errorListener that reports the launched task's name instead of
\* the name of the task that ended.
errorListener_namesLaunched(w, e, launched, path) ==
    LET r  == IPreDeployTaskResult(Some(Task[launched].name), Some(e.exitCode), FALSE)
        w0 == [w EXCEPT !.handled = @ + 1]
        w1 == IF isScopeEqual(Task[e.task], path) /\ e.exitCode # 0
              THEN resolve(dispose(w0), r)
              ELSE w0
        w2 == IF e.task = launched
              THEN resolve(dispose(w1), r)
              ELSE w1
    IN  w2

\* Variant of errorListener that resolves for the launched task without
\* disposing the listener.
errorListener_noDispose(w, e, launched, path) ==
    LET w0 == [w EXCEPT !.handled = @ + 1]
        w1 == IF isScopeEqual(Task[e.task], path) /\ e.exitCode # 0
              THEN resolve(dispose(w0), eventResult(e))
              ELSE w0
        w2 == IF e.task = launched
              THEN resolve(w1, eventResult(e))
              ELSE w1
    IN  w2

\* Variant of errorListener whose first condition does not look at the exit
\* code.
errorListener_anyExitCode(w, e, launched, path) ==
    LET w0 == [w EXCEPT !.handled = @ + 1]
        w1 == IF isScopeEqual(Task[e.task], path)
              THEN resolve(dispose(w0), eventResult(e))
              ELSE w0
        w2 == IF e.task = launched
              THEN resolve(dispose(w1), eventResult(e))
              ELSE w1
    IN  w2

\* Variant of errorListener whose identity check is an else-branch of the
\* scope-and-exit-code check.
errorListener_elseIf(w, e, launched, path) ==
    LET w0 == [w EXCEPT !.handled = @ + 1]
    IN  IF isScopeEqual(Task[e.task], path) /\ e.exitCode # 0
        THEN resolve(dispose(w0), eventResult(e))
        ELSE IF e.task = launched
        THEN resolve(dispose(w0), eventResult(e))
        ELSE w0

\* The callback registered on onDidEndTaskProcess, run for event e by the
\* invocation that launched task launched for path: two consecutive ifs.
errorListener(w, e, launched, path) ==
    LET w0 == [w EXCEPT !.handled = @ + 1]
        w1 == IF isScopeEqual(Task[e.task], path) /\ e.exitCode # 0
              THEN resolve(dispose(w0), eventResult(e))
              ELSE w0
        w2 == IF e.task = launched
              THEN resolve(dispose(w1), eventResult(e))
              ELSE w1
    IN  w2

\* Variant of onDidEndTaskProcess in which the invocations share one listener
\* handle: when one of them resolves, the listeners of the others are
\* detached as well and do not see the event.
onDidEndTaskProcess_sharedListener(t, exitCode) ==
    /\ eventCount < MaxEvents
    /\ eventCount' = eventCount + 1
    /\ LET e == TaskProcessEndEvent(t, exitCode)
           ran(i) == errorListener(wait[i], e, preDeployTask[i], deployFsPath[i])
           resolves(i) == wait[i].registered /\ ~ran(i).registered
       IN  wait' = [i \in Invocations |->
                      IF ~wait[i].registered THEN wait[i]
                      ELSE IF resolves(i) THEN ran(i)
                      ELSE IF \E k \in Invocations : resolves(k)
                           THEN [wait[i] EXCEPT !.registered = FALSE]
                           ELSE ran(i)]
    /\ ownEnded' = [i \in Invocations |->
                      \/ ownEnded[i]
                      \/ pc[i] \in {"executing", "waiting"} /\ t = preDeployTask[i]]
    /\ UNCHANGED <<setting, tasks, pc, deployFsPath, scmType,
                   preDeployTaskResult, preDeployTask, telemetry, effects>>

\* The host emits a task-process-end event: every registered listener runs
\* synchronously.
onDidEndTaskProcess(t, exitCode) ==
    /\ eventCount < MaxEvents
    /\ eventCount' = eventCount + 1
    /\ wait' = [i \in Invocations |->
                  IF wait[i].registered
                  THEN errorListener(wait[i], TaskProcessEndEvent(t, exitCode),
                                     preDeployTask[i], deployFsPath[i])
                  ELSE wait[i]]
    /\ ownEnded' = [i \in Invocations |->
                      \/ ownEnded[i]
                      \/ pc[i] \in {"executing", "waiting"} /\ t = preDeployTask[i]]
    /\ UNCHANGED <<setting, tasks, pc, deployFsPath, scmType,
                   preDeployTaskResult, preDeployTask, telemetry, effects>>

\* The awaited promise has been resolved: the result is stored, the exit
\* code goes to telemetry, the progress callback ends and
\* tryRunPreDeployTask returns.
tryRunPreDeployTaskReturn(i) ==
    /\ pc[i] = "waiting"
    /\ wait[i].promise # undefined
    /\ preDeployTaskResult' = [preDeployTaskResult EXCEPT ![i] = wait[i].promise[1]]
    /\ telemetry' = [telemetry EXCEPT ![i].preDeployTaskExitCode =
                        Some(String(wait[i].promise[1].exitCode[1]))]
    /\ pc' = [pc EXCEPT ![i] = "tryReturned"]
    /\ UNCHANGED <<setting, tasks, eventCount, deployFsPath,
                   scmType, preDeployTask, wait, effects, ownEnded>>

\* ------------------------------------------------------ outcome handler
\* Variant of outcome that does not look at failedToFindTask.
outcome_ignoresNotFound(r) ==
    IF r.exitCode # undefined /\ r.exitCode[1] # 0 THEN "prompting"
    ELSE "returned"

\* Variant of outcome that prompts for every defined exit code.
outcome_anyExitCode(r) ==
    IF r.failedToFindTask THEN "threwError"
    ELSE IF r.exitCode # undefined THEN "prompting"
    ELSE "returned"

\* What runPreDeployTask does with the result of tryRunPreDeployTask.
outcome(r) ==
    IF r.failedToFindTask THEN "threwError"
    ELSE IF r.exitCode # undefined /\ r.exitCode[1] # 0 THEN "prompting"
    ELSE "returned"

runPreDeployTaskOutcome(i) ==
    /\ pc[i] = "tryReturned"
    /\ pc' = [pc EXCEPT ![i] = outcome(preDeployTaskResult[i])]
    /\ effects' = [effects EXCEPT ![i].showErrorMessage =
                      IF outcome(preDeployTaskResult[i]) = "prompting"
                      THEN @ + 1 ELSE @]
    /\ UNCHANGED <<setting, tasks, eventCount, deployFsPath,
                   scmType, preDeployTaskResult, preDeployTask, wait,
                   telemetry, ownEnded>>

\* What showErrorMessage resolves with: one of the two items, or undefined
\* when the dialog is dismissed.
MessageItems == {"deployAnyway", "openSettings"}
PromptResults == {Some(m) : m \in MessageItems} \cup {undefined}

\* Variant of response that does not throw when the dialog is dismissed.
response_cancelReturns(result) ==
    IF result = Some("deployAnyway")
    THEN [recorded |-> "deployAnyway", next |-> "returned"]
    ELSE IF result = Some("openSettings")
    THEN [recorded |-> "openSettings", next |-> "openingSettings"]
    ELSE [recorded |-> "cancel", next |-> "returned"]

\* Variant of response in which "Deploy Anyway" falls through to the throw.
response_deployAnywayThrows(result) ==
    IF result = Some("deployAnyway")
    THEN [recorded |-> "deployAnyway", next |-> "threwUserCancelledError"]
    ELSE IF result = Some("openSettings")
    THEN [recorded |-> "openSettings", next |-> "openingSettings"]
    ELSE [recorded |-> "cancel", next |-> "threwUserCancelledError"]

\* Variant of response that throws for "Open Settings" without running the
\* openSettings command.
response_openSettingsSkipsCommand(result) ==
    IF result = Some("deployAnyway")
    THEN [recorded |-> "deployAnyway", next |-> "returned"]
    ELSE IF result = Some("openSettings")
    THEN [recorded |-> "openSettings", next |-> "threwUserCancelledError"]
    ELSE [recorded |-> "cancel", next |-> "threwUserCancelledError"]

\* Variant of response that treats a dismissed dialog like "Open Settings".
response_dismissOpensSettings(result) ==
    IF result = Some("deployAnyway")
    THEN [recorded |-> "deployAnyway", next |-> "returned"]
    ELSE [recorded |-> "openSettings", next |-> "openingSettings"]

\* Where handleFailedPreDeployTask goes for the operator's answer.
response(result) ==
    IF result = Some("deployAnyway")
    THEN [recorded |-> "deployAnyway", next |-> "returned"]
    ELSE IF result = Some("openSettings")
    THEN [recorded |-> "openSettings", next |-> "openingSettings"]
    ELSE [recorded |-> "cancel", next |-> "threwUserCancelledError"]

\* showErrorMessage has resolved with the operator's answer.
handleFailedPreDeployTask(i, result) ==
    /\ pc[i] = "prompting"
    /\ telemetry' = [telemetry EXCEPT ![i].preDeployTaskResponse =
                        Some(response(result).recorded)]
    /\ pc' = [pc EXCEPT ![i] = response(result).next]
    /\ effects' = [effects EXCEPT ![i].executeCommand =
                      IF response(result).next = "openingSettings"
                      THEN @ + 1 ELSE @]
    /\ UNCHANGED <<setting, tasks, eventCount, deployFsPath,
                   scmType, preDeployTaskResult, preDeployTask, wait,
                   ownEnded>>

\* executeCommand('workbench.action.openSettings') has resolved.
openSettingsReturned(i) ==
    /\ pc[i] = "openingSettings"
    /\ pc' = [pc EXCEPT ![i] = "threwUserCancelledError"]
    /\ UNCHANGED <<setting, tasks, eventCount, deployFsPath,
                   scmType, preDeployTaskResult, preDeployTask, wait,
                   telemetry, effects, ownEnded>>

\* --------------------------------------------------------- specification
Step(i) ==
    \/ fetchTasksReturned(i)
    \/ waitForPreDeployTask(i)
    \/ tryRunPreDeployTaskReturn(i)
    \/ runPreDeployTaskOutcome(i)
    \/ openSettingsReturned(i)

Next ==
    \/ \E i \in Invocations, path \in DeployPaths, scm \in ScmTypes :
          runPreDeployTask(i, path, scm)
    \/ \E i \in Invocations : fetchTasksReturned(i)
    \/ \E i \in Invocations : waitForPreDeployTask(i)
    \/ \E t \in TaskIds, exitCode \in ExitCodes : onDidEndTaskProcess(t, exitCode)
    \/ \E i \in Invocations : tryRunPreDeployTaskReturn(i)
    \/ \E i \in Invocations : runPreDeployTaskOutcome(i)
    \/ \E i \in Invocations, result \in PromptResults :
          handleFailedPreDeployTask(i, result)
    \/ \E i \in Invocations : openSettingsReturned(i)

Spec == Init /\ [][Next]_vars

\* The event loop runs every continuation that is ready; the host's events
\* and the operator's answer are not forced to happen.
FairSpec == Spec /\ \A i \in Invocations : WF_vars(Step(i))

TypeOK ==
    /\ setting \in Settings
    /\ tasks \in TaskLists
    /\ eventCount \in 0..MaxEvents
    /\ \A i \in Invocations :
          /\ pc[i] \in {"idle", "fetching", "executing", "waiting",
                        "tryReturned", "prompting", "openingSettings",
                        "returned", "threwError", "threwUserCancelledError"}
          /\ preDeployTask[i] \in TaskIds \cup {"none"}
          /\ wait[i].registered \in BOOLEAN

\* ================================================================ claims
\* tryRunPreDeployTask has returned its result to the caller.
TryReturned(i) ==
    pc[i] \in {"tryReturned", "prompting", "openingSettings", "returned",
               "threwError", "threwUserCancelledError"}

\* The wait of invocation i is suspended and its promise is not settled.
Pending(i) == pc[i] = "waiting" /\ wait[i].promise = undefined

Range(list) == {list[k] : k \in 1..Len(list)}

\* No enumerated task carries the configured name itself under the scope rule.
NoExactMatch(i) ==
    \A t \in Range(tasks) : ~isTaskEqual(setting[1], deployFsPath[i], Task[t])

\* C1: once executeTask has been invoked for the resolved task, a completion
\* event for that task emitted at any later point resolves the wait, so that
\* tryRunPreDeployTask returns. Listeners run synchronously with the
\* emission, so the claim's final result is: an invocation whose launched
\* task has ended since the launch is never left suspended on an unsettled
\* wait.
C1_LaunchedCompletionResolvesWait ==
    \A i \in Invocations : ownEnded[i] => ~Pending(i)

\* C2 as stated: with "func: extensions install" registered at /proj (and no
\* task named "extensions install" itself), the setting "extensions install"
\* and deploy path /proj/sub, the task is resolved and executed and
\* failedToFindTask stays false.
C2_PrefixedTaskResolvedFromBareSetting ==
    \A i \in Invocations :
        ( /\ setting = Some(ExtensionsInstall)
          /\ "funcExt" \in Range(tasks)
          /\ deployFsPath[i] = ProjSub
          /\ ~isNonZipDeploy(scmType[i])
          /\ NoExactMatch(i)
          /\ pc[i] \notin {"idle", "fetching"} )
        => /\ preDeployTask[i] = "funcExt"
           /\ effects[i].executeTask = 1
           /\ ~preDeployTaskResult[i].failedToFindTask

\* C2 amended: the source prefix is stripped from the configured name, not
\* from the task's name. With "extensions install" registered at /proj, no
\* task carrying the configured name itself, the setting
\* "func: extensions install" and deploy path /proj/sub, that task is
\* resolved and executed and failedToFindTask stays false.
C2_BareTaskResolvedFromPrefixedSetting ==
    \A i \in Invocations :
        ( /\ setting = Some(FuncExtensionsInstall)
          /\ "ext" \in Range(tasks)
          /\ deployFsPath[i] = ProjSub
          /\ ~isNonZipDeploy(scmType[i])
          /\ NoExactMatch(i)
          /\ pc[i] \notin {"idle", "fetching"} )
        => /\ preDeployTask[i] = "ext"
           /\ effects[i].executeTask = 1
           /\ ~preDeployTaskResult[i].failedToFindTask

C2_Witness ==
    \E i \in Invocations :
        /\ setting = Some(FuncExtensionsInstall)
        /\ deployFsPath[i] = ProjSub
        /\ NoExactMatch(i)
        /\ pc[i] = "executing"
        /\ preDeployTask[i] = "ext"
        /\ Task[preDeployTask[i]].scope.fsPath = Proj

\* How many of {taskName undefined, failedToFindTask, exitCode set} hold.
Classifications(r) ==
    (IF r.taskName = undefined THEN 1 ELSE 0)
    + (IF r.failedToFindTask THEN 1 ELSE 0)
    + (IF r.exitCode # undefined THEN 1 ELSE 0)

\* C3 as stated: every result returned by tryRunPreDeployTask on the paths
\* the claim names (name unset, non-zip deploy skip, task not found, task
\* run) satisfies exactly one of: taskName undefined, failedToFindTask true,
\* exitCode set.
C3_ExactlyOneClassification ==
    \A i \in Invocations :
        (TryReturned(i) /\ setting # Some(EmptyString))
        => Classifications(preDeployTaskResult[i]) = 1

\* C3 amended: every returned result satisfies at most one of the three
\* conditions; it satisfies none exactly when a name is configured and the
\* task was skipped (non-zip deploy, or the configured name is the empty
\* string), and exactly one on the other paths (name unset, task not found,
\* task run).
C3_AtMostOneClassification ==
    \A i \in Invocations :
        TryReturned(i) =>
            /\ Classifications(preDeployTaskResult[i]) <= 1
            /\ Classifications(preDeployTaskResult[i]) = 0
                 <=> /\ setting # undefined
                     /\ isNonZipDeploy(scmType[i]) \/ ~Truthy(setting)

C3_Witness ==
    \E i, j \in Invocations :
        /\ TryReturned(i) /\ TryReturned(j)
        /\ effects[i].appendLog = 1
        /\ Classifications(preDeployTaskResult[i]) = 0
        /\ preDeployTaskResult[j].exitCode # undefined
        /\ Classifications(preDeployTaskResult[j]) = 1

\* C4: a dependency task (not the launched task, scope matching the deploy
\* path) that ends with a non-zero exit code while the wait is pending and
\* before the launched task has ended resolves the wait with the
\* dependency's name and exit code, and that is the result returned.
C4_DependencyFailureResolvesWait ==
    [][\A i \in Invocations :
          /\ \A t \in TaskIds, c \in ExitCodes :
                ( /\ Pending(i)
                  /\ ~ownEnded[i]
                  /\ t # preDeployTask[i]
                  /\ isScopeEqual(Task[t], deployFsPath[i])
                  /\ c # 0
                  /\ onDidEndTaskProcess(t, c) )
                => wait'[i].promise =
                     Some(IPreDeployTaskResult(Some(Task[t].name), Some(c), FALSE))
          /\ tryRunPreDeployTaskReturn(i)
                => preDeployTaskResult'[i] = wait[i].promise[1]]_vars

C4_Witness ==
    \E i \in Invocations :
        /\ TryReturned(i)
        /\ preDeployTask[i] \notin {"none", "build"}
        /\ ~ownEnded[i]
        /\ preDeployTaskResult[i].taskName = Some(Build)
        /\ Task[preDeployTask[i]].name # Build
        /\ preDeployTaskResult[i].exitCode = Some(1)

\* C5: a wait is resolved once. From the first qualifying event on, the
\* listener is not registered, no later event is processed by it or changes
\* the promise, the returned result does not change, and an invocation whose
\* tryRunPreDeployTask has returned has no listener registered.
C5_SingleResolution ==
    [][\A i \in Invocations :
          /\ (wait[i].promise # undefined => ~wait[i].registered)'
          /\ (TryReturned(i) => ~wait[i].registered)'
          /\ wait[i].promise # undefined => wait'[i] = wait[i]
          /\ TryReturned(i) => preDeployTaskResult'[i] = preDeployTaskResult[i]]_vars

C5_Witness ==
    \E i \in Invocations :
        /\ TryReturned(i)
        /\ wait[i].promise # undefined
        /\ wait[i].resolveCalls >= 1
        /\ eventCount - wait[i].registeredAt > wait[i].handled

\* Event (t, c) ends the wait of invocation i.
Qualifies(i, t, c) ==
    \/ isScopeEqual(Task[t], deployFsPath[i]) /\ c # 0
    \/ t = preDeployTask[i]

\* C6: while the wait is pending, an event of a task other than the launched
\* one whose scope does not match the deploy path or whose exit code is 0 is
\* ignored (wait still pending, listener still registered, no result); the
\* wait stops being pending only in a step that emits a qualifying event.
C6_OnlyQualifyingEventsResolve ==
    [][\A i \in Invocations :
          Pending(i) =>
            /\ \A t \in TaskIds, c \in ExitCodes :
                  ( /\ t # preDeployTask[i]
                    /\ ~isScopeEqual(Task[t], deployFsPath[i]) \/ c = 0
                    /\ onDidEndTaskProcess(t, c) )
                  => /\ Pending(i)'
                     /\ wait'[i].registered
                     /\ preDeployTaskResult'[i] = preDeployTaskResult[i]
            /\ ~Pending(i)' =>
                  \E t \in TaskIds, c \in ExitCodes :
                      Qualifies(i, t, c) /\ onDidEndTaskProcess(t, c)]_vars

C6_Witness ==
    \E i \in Invocations :
        /\ Pending(i)
        /\ wait[i].registered
        /\ wait[i].handled >= 1

\* C7: runPreDeployTask returns normally after a non-zero exit code only
\* when the operator chose "Deploy Anyway"; when the task was not found, the
\* prompt was dismissed or "Open Settings" was chosen it ends by raising and
\* never returns normally.
C7_OnlyDeployAnywayTolerates ==
    \A i \in Invocations :
        LET r == preDeployTaskResult[i]
            answer == telemetry[i].preDeployTaskResponse
        IN  /\ (pc[i] = "returned" /\ r.exitCode # undefined /\ r.exitCode[1] # 0)
                  => answer = Some("deployAnyway")
            /\ r.failedToFindTask => pc[i] \in {"tryReturned", "threwError"}
            /\ answer = Some("cancel") => pc[i] = "threwUserCancelledError"
            /\ answer = Some("openSettings")
                  => pc[i] \in {"openingSettings", "threwUserCancelledError"}

C7_Witness ==
    \E i, j \in Invocations :
        /\ pc[i] = "returned"
        /\ preDeployTaskResult[i].exitCode = Some(1)
        /\ telemetry[i].preDeployTaskResponse = Some("deployAnyway")
        /\ pc[j] = "threwUserCancelledError"
        /\ telemetry[j].preDeployTaskResponse = Some("cancel")

\* C8: with the setting unset, tryRunPreDeployTask returns
\* {taskName: undefined, exitCode: undefined, failedToFindTask: false} at
\* once, for every deploy path, without fetchTasks, executeTask, a listener
\* on onDidEndTaskProcess or a progress notification.
C8_UnsetNameTouchesNothing ==
    \A i \in Invocations :
        (setting = undefined /\ pc[i] # "idle") =>
            /\ TryReturned(i)
            /\ preDeployTaskResult[i] = IPreDeployTaskResult(undefined, undefined, FALSE)
            /\ effects[i].fetchTasks = 0
            /\ effects[i].executeTask = 0
            /\ effects[i].onDidEndTaskProcess = 0
            /\ effects[i].withProgress = 0
            /\ ~wait[i].registered

C8_Witness ==
    \E i, j \in Invocations :
        /\ setting = undefined
        /\ pc[i] = "returned" /\ pc[j] = "returned"
        /\ deployFsPath[i] = ProjSub /\ deployFsPath[j] = Other

\* C9: for scm modes LocalGit and GitHub, whatever the setting, no task is
\* executed, no listener is registered, failedToFindTask stays false and
\* exitCode undefined, the only effect is the log line (written exactly when
\* a task name is configured), and runPreDeployTask returns normally.
C9_NonZipDeploySkipsTask ==
    \A i \in Invocations :
        (pc[i] # "idle" /\ scmType[i] \in {"LocalGit", "GitHub"}) =>
            /\ pc[i] \in {"tryReturned", "returned"}
            /\ effects[i] = [NoEffects EXCEPT
                               !.appendLog = IF Truthy(setting) THEN 1 ELSE 0]
            /\ ~wait[i].registered
            /\ preDeployTask[i] = "none"
            /\ preDeployTaskResult[i] = IPreDeployTaskResult(setting, undefined, FALSE)

C9_Witness ==
    \E i, j \in Invocations :
        /\ scmType[i] = "LocalGit" /\ scmType[j] = "GitHub"
        /\ pc[i] = "returned" /\ pc[j] = "returned"
        /\ effects[i].appendLog = 1 /\ effects[j].appendLog = 1

\* No enumerated task carries the configured name with its source prefix
\* stripped under the scope rule.
NoStrippedMatch(i) ==
    \A t \in Range(tasks) :
        ~isTaskEqual(stripSource(setting[1]), deployFsPath[i], Task[t])

\* C10: with a task name configured, a zip deploy and no enumerated task
\* matching the exact or the prefix-stripped name under the scope rule,
\* tryRunPreDeployTask returns failedToFindTask = true without executing a
\* task or registering a listener, and runPreDeployTask raises the "failed
\* to find task" error without showing the failure prompt.
C10_MissingTaskRaisesError ==
    \A i \in Invocations :
        ( /\ pc[i] \notin {"idle", "fetching"}
          /\ Truthy(setting)
          /\ scmType[i] \notin {"LocalGit", "GitHub"}
          /\ NoExactMatch(i)
          /\ NoStrippedMatch(i) )
        => /\ pc[i] \in {"tryReturned", "threwError"}
           /\ preDeployTaskResult[i] = IPreDeployTaskResult(setting, undefined, TRUE)
           /\ effects[i] = [NoEffects EXCEPT !.fetchTasks = 1]
           /\ ~wait[i].registered
           /\ preDeployTask[i] = "none"

C10_Witness ==
    \E i \in Invocations :
        /\ pc[i] = "threwError"
        /\ setting = Some(FuncExtensionsInstall)
        /\ preDeployTaskResult[i].failedToFindTask
        /\ effects[i].fetchTasks = 1

\* C11: when the launched task's end event with exit code 0 ends the wait,
\* the result's exit code is 0 and runPreDeployTask returns normally: no
\* failure prompt, no settings command, no answer recorded, no error.
C11_ZeroExitReturnsSilently ==
    [][\A i \in Invocations :
          /\ \A t \in TaskIds :
                (Pending(i) /\ t = preDeployTask[i] /\ onDidEndTaskProcess(t, 0))
                => wait'[i].promise =
                     Some(IPreDeployTaskResult(Some(Task[t].name), Some(0), FALSE))
          /\ ( (TryReturned(i) /\ preDeployTaskResult[i].exitCode = Some(0))
               => /\ pc[i] \in {"tryReturned", "returned"}
                  /\ effects[i].showErrorMessage = 0
                  /\ effects[i].executeCommand = 0
                  /\ telemetry[i].preDeployTaskResponse = undefined
                  /\ telemetry[i].preDeployTaskExitCode = Some(<<"0">>) )']_vars

C11_Witness ==
    \E i \in Invocations :
        /\ pc[i] = "returned"
        /\ ownEnded[i]
        /\ preDeployTaskResult[i].exitCode = Some(0)
        /\ preDeployTaskResult[i].taskName = Some(Task[preDeployTask[i]].name)

\* The failure prompt of invocation i is open after the launched task itself
\* ended with a non-zero exit code.
LaunchedFailedPrompt(i) ==
    /\ pc[i] = "prompting"
    /\ preDeployTask[i] # "none"
    /\ ownEnded[i]
    /\ preDeployTaskResult[i].exitCode # undefined
    /\ preDeployTaskResult[i].exitCode[1] # 0

\* C12: when the launched task ended with a non-zero exit code and the
\* operator selects "Deploy Anyway", runPreDeployTask returns normally, the
\* recorded choice is "deployAnyway" and the settings command is not run.
C12_DeployAnywayReturns ==
    [][\A i \in Invocations :
          (LaunchedFailedPrompt(i) /\ handleFailedPreDeployTask(i, Some("deployAnyway")))
          => /\ pc'[i] = "returned"
             /\ telemetry'[i].preDeployTaskResponse = Some("deployAnyway")
             /\ effects'[i].executeCommand = 0]_vars

C12_Witness ==
    \E i \in Invocations :
        /\ pc[i] = "returned"
        /\ ownEnded[i]
        /\ preDeployTaskResult[i].exitCode = Some(1)
        /\ telemetry[i].preDeployTaskResponse = Some("deployAnyway")
        /\ effects[i].showErrorMessage = 1
        /\ effects[i].executeCommand = 0

\* C13: when the launched task ended with a non-zero exit code and the
\* operator selects "Open Settings", "openSettings" is recorded, the settings
\* command is run exactly once and before the error is raised, and
\* runPreDeployTask then raises UserCancelledError.
C13_OpenSettingsThenCancel ==
    [][\A i \in Invocations :
          /\ (LaunchedFailedPrompt(i) /\ handleFailedPreDeployTask(i, Some("openSettings")))
             => /\ pc'[i] = "openingSettings"
                /\ telemetry'[i].preDeployTaskResponse = Some("openSettings")
                /\ effects'[i].executeCommand = 1
          /\ (pc[i] = "openingSettings" /\ pc'[i] # pc[i])
             => /\ pc'[i] = "threwUserCancelledError"
                /\ effects'[i].executeCommand = 1
                /\ telemetry'[i].preDeployTaskResponse = Some("openSettings")]_vars

C13_Witness ==
    \E i \in Invocations :
        /\ pc[i] = "threwUserCancelledError"
        /\ ownEnded[i]
        /\ preDeployTaskResult[i].exitCode = Some(1)
        /\ telemetry[i].preDeployTaskResponse = Some("openSettings")
        /\ effects[i].executeCommand = 1

\* C14: when the failure prompt is dismissed without a choice, "cancel" is
\* recorded, the settings command is not run and runPreDeployTask raises
\* UserCancelledError.
C14_DismissCancels ==
    [][\A i \in Invocations :
          handleFailedPreDeployTask(i, undefined)
          => /\ pc'[i] = "threwUserCancelledError"
             /\ telemetry'[i].preDeployTaskResponse = Some("cancel")
             /\ effects'[i].executeCommand = 0]_vars

C14_Witness ==
    \E i \in Invocations :
        /\ pc[i] = "threwUserCancelledError"
        /\ telemetry[i].preDeployTaskResponse = Some("cancel")
        /\ effects[i].showErrorMessage = 1
        /\ effects[i].executeCommand = 0

Threw == {"threwError", "threwUserCancelledError"}

\* C15: tryRunPreDeployTask never raises for a failed or a missing task: for
\* every exit code of the event that ends the wait, and when no task is
\* found, it returns a result carrying that classification; an error is
\* raised only from the outcome handling that follows the return.
C15_TryRunReturnsFailureAsData ==
    [][\A i \in Invocations :
          /\ (pc'[i] \in Threw /\ pc[i] \notin Threw)
             => pc[i] \in {"tryReturned", "prompting", "openingSettings"}
          /\ (pc[i] = "waiting" /\ wait[i].promise # undefined /\ pc'[i] # pc[i])
             => /\ pc'[i] = "tryReturned"
                /\ preDeployTaskResult'[i] = wait[i].promise[1]
          /\ (pc[i] = "fetching" /\ pc'[i] # pc[i]
                /\ NoExactMatch(i) /\ NoStrippedMatch(i))
             => /\ pc'[i] = "tryReturned"
                /\ preDeployTaskResult'[i] =
                     IPreDeployTaskResult(setting, undefined, TRUE)]_vars

C15_Witness ==
    \E i, j \in Invocations :
        /\ pc[i] = "tryReturned"
        /\ preDeployTaskResult[i].failedToFindTask
        /\ pc[j] = "tryReturned"
        /\ preDeployTaskResult[j].exitCode = Some(1)

\* C16: with two invocations waiting at the same time, every registered
\* listener receives every event; when an event resolves one invocation
\* and detaches its listener, the other invocation's listener has received
\* that same event and stays registered unless the event qualifies for it
\* too, in which case it resolves with that event as well.
C16_ListenersAreIndependent ==
    [][\A i, j \in Invocations, t \in TaskIds, c \in ExitCodes :
          ( /\ i # j
            /\ Pending(i) /\ Pending(j)
            /\ Qualifies(i, t, c)
            /\ onDidEndTaskProcess(t, c) )
          => /\ wait'[i].promise # undefined
             /\ ~wait'[i].registered
             /\ wait'[j].handled = wait[j].handled + 1
             /\ IF Qualifies(j, t, c)
                THEN wait'[j].promise =
                       Some(IPreDeployTaskResult(Some(Task[t].name), Some(c), FALSE))
                ELSE wait'[j].registered /\ wait'[j].promise = undefined]_vars

\* Invocation i was resolved by an event that invocation j's listener
\* received too, and j is still waiting with its listener registered.
C16_Witness ==
    \E i, j \in Invocations :
        /\ i # j
        /\ wait[i].promise # undefined
        /\ Pending(j)
        /\ wait[j].registered
        /\ wait[j].registeredAt < wait[i].registeredAt + wait[i].handled
        /\ wait[i].registeredAt + wait[i].handled
              <= wait[j].registeredAt + wait[j].handled

\* The positions in the enumeration of the tasks whose name is n, compared
\* without case, and whose scope is a workspace folder that is the deploy
\* path of i or above it.
Matching(i, n) ==
    LET lower == toLowerCase(n)
    IN  {k \in 1..Len(tasks) :
            /\ Task[tasks[k]].scope.kind = "object"
            /\ \/ Task[tasks[k]].scope.fsPath = deployFsPath[i]
               \/ isSubpath(Task[tasks[k]].scope.fsPath, deployFsPath[i])
            /\ lower = toLowerCase(Task[tasks[k]].name)}

First(K) == CHOOSE k \in K : \A j \in K : k <= j

\* C17: the resolver makes two passes: the first task in enumeration order
\* matching the configured name is chosen; only when there is none, the
\* first task matching the name without its "<source>: " prefix. So an exact
\* match wins over a prefix-stripped match enumerated earlier, and a task
\* without a folder scope is never chosen.
C17_TwoPassResolution ==
    \A i \in Invocations :
        ( /\ pc[i] \notin {"idle", "fetching"}
          /\ setting # undefined /\ setting # Some(EmptyString)
          /\ scmType[i] \notin {"LocalGit", "GitHub"} )
        => LET exact == Matching(i, setting[1])
               stripped == Matching(i, stripSource(setting[1]))
           IN  /\ preDeployTask[i] =
                    IF exact # {} THEN tasks[First(exact)]
                    ELSE IF stripped # {} THEN tasks[First(stripped)]
                    ELSE "none"
               /\ preDeployTask[i] # "none"
                    => Task[preDeployTask[i]].scope.kind = "object"

\* The exact match is second in the enumeration, after a task that matches
\* the name without its prefix.
C17_Witness ==
    \E i \in Invocations :
        /\ pc[i] = "executing"
        /\ setting = Some(FuncExtensionsInstall)
        /\ tasks = <<"ext", "funcExt", "build">>
        /\ First(Matching(i, stripSource(setting[1]))) = 1
        /\ First(Matching(i, setting[1])) = 2
        /\ preDeployTask[i] = "funcExt"

\* C18 as stated: for a single event the listener's dispose and the wait's
\* resolve are each invoked at most once.
C18_AtMostOneDetachAndResolve ==
    [][\A i \in Invocations :
          /\ wait'[i].disposeCalls <= wait[i].disposeCalls + 1
          /\ wait'[i].resolveCalls <= wait[i].resolveCalls + 1]_vars

\* C18 amended: the two conditions are checked one after the other for each
\* event. dispose and resolve are each invoked once for every condition that
\* holds: twice when the launched task ends with a non-zero exit code in a
\* matching scope, once when exactly one condition holds, not at all
\* otherwise; the promise is settled once, with the event's name and exit
\* code.
C18_IndependentConditions ==
    [][\A i \in Invocations, t \in TaskIds, c \in ExitCodes :
          (wait[i].registered /\ onDidEndTaskProcess(t, c))
          => LET n == (IF isScopeEqual(Task[t], deployFsPath[i]) /\ c # 0
                       THEN 1 ELSE 0)
                      + (IF t = preDeployTask[i] THEN 1 ELSE 0)
             IN  /\ wait'[i].disposeCalls = wait[i].disposeCalls + n
                 /\ wait'[i].resolveCalls = wait[i].resolveCalls + n
                 /\ wait'[i].registered = (n = 0)
                 /\ wait'[i].promise =
                      IF n = 0 THEN undefined
                      ELSE Some(IPreDeployTaskResult(Some(Task[t].name), Some(c), FALSE))]_vars

C18_Witness ==
    \E i \in Invocations :
        /\ ownEnded[i]
        /\ wait[i].disposeCalls = 2
        /\ wait[i].resolveCalls = 2
        /\ wait[i].handled = 1
        /\ wait[i].promise # undefined
        /\ wait[i].promise[1].exitCode = Some(1)

\* C19: a result with exitCode set implies that a task was resolved,
\* executeTask was called exactly once and failedToFindTask is false;
\* failedToFindTask implies exitCode undefined and no executeTask call;
\* executeTask is called at most once and only for a task the resolver
\* matched.
C19_ExitCodeOnlyAfterLaunch ==
    \A i \in Invocations :
        LET r == preDeployTaskResult[i]
        IN  /\ r.exitCode # undefined
                 => /\ preDeployTask[i] # "none"
                    /\ effects[i].executeTask = 1
                    /\ ~r.failedToFindTask
            /\ r.failedToFindTask
                 => /\ r.exitCode = undefined
                    /\ effects[i].executeTask = 0
                    /\ preDeployTask[i] = "none"
            /\ effects[i].executeTask <= 1
            /\ effects[i].executeTask = 1
                 => /\ effects[i].fetchTasks = 1
                    /\ preDeployTask[i] \in Range(tasks)
                    /\ \/ isTaskEqual(setting[1], deployFsPath[i], Task[preDeployTask[i]])
                       \/ isTaskEqual(stripSource(setting[1]), deployFsPath[i],
                                      Task[preDeployTask[i]])

C19_Witness ==
    \E i, j \in Invocations :
        /\ preDeployTaskResult[i].exitCode # undefined
        /\ effects[i].executeTask = 1
        /\ TryReturned(i)
        /\ preDeployTaskResult[j].failedToFindTask
        /\ effects[j].executeTask = 0
====
